---- MODULE Spec2Model ----
(***************************************************************************)
(* Pianoscribe: note-event extraction (SimplePianoTranscriber.transcribe,  *)
(* tasks/task-01/simple_transcriber.py) and cross-model agreement scoring  *)
(* (calculate_agreement, tasks/task-02/run_comparison.py, and              *)
(* analyze_model_agreement, tasks/task-02/compare_models.py).              *)
(*                                                                         *)
(* Units.  Decibel values are integers, but for the peak heights of the    *)
(* velocity formula on its own, which are tenths of a dB.  Times of the    *)
(* extractor are kept exactly, as a number of samples: a time of t stands  *)
(* for t/sample_rate                                                       *)
(* seconds (librosa.frames_to_time(f) = f*hop_length/sr).  Times of the    *)
(* agreement scorer are integers in milliseconds, so the 0.05 s tolerance  *)
(* is 50.                                                                  *)
(***************************************************************************)
EXTENDS Integers, Sequences, FiniteSets, TLC

-----------------------------------------------------------------------------
(* Bounds of the model *)

\* rows of the spectrogram (n_bins is 88 in the program)
NBins == 5
\* columns of the spectrogram, C_db.shape[1]
NFrames == 2
\* longest sequence of onset frames supplied
MaxOnsets == 3
\* longest note list handed to the agreement scorer
MaxNotes == 2
\* frames of a spectrogram row on which the offset scan is followed
RowFrames == 5
\* most sample files found in the samples directory
MaxSamples == 2

\* decibel values a spectrogram cell takes: decayed, and loud
Levels == {-60, -10}
\* (sample_rate, hop_length) the transcriber is constructed with:
\* frame rates 1.5, 2 and 4 frames per second
Rates == { <<3, 2>>, <<2, 1>>, <<4, 1>> }
\* onset frames supplied: every frame of the spectrogram and one past its end
OnsetFrameValues == 0..NFrames

\* notes handed to the agreement scorer: pitches up to two semitones apart,
\* onsets 0, 1, 50 and 51 ms apart, and two durations
Pitches == {60, 61, 62}
OnsetsMs == {0, 50, 51}
DurationMs(pitch) == IF pitch = 61 THEN 100 ELSE 500

-----------------------------------------------------------------------------
(* Program constants *)

PianoBins == 88
A0 == 21
MinDb == -40
PeakDistance == 2
DecayDb == -50
PitchTolerance == 1
TimeToleranceMs == 50

-----------------------------------------------------------------------------
VARIABLES
    pc,             \* position in transcribe
    sample_rate,    \* self.sample_rate
    hop_length,     \* self.hop_length
    C_db,           \* the spectrogram in dB, C_db[bin][frame]
    onset_frames,   \* the onset frames, in the order iterated
    k,              \* index of the next onset frame of the loop at line 52
    notes,          \* the accumulated candidates
    i,              \* index of the next candidate of the loop at line 94
    filtered_notes, \* the kept notes
    transcription,  \* the value returned
    frames_read,    \* the frames of C_db read so far
    apc,            \* position of the agreement run
    notes1, notes2, \* the two note lists scored
    row_ab,         \* calculate_agreement's row for (notes1, notes2)
    row_ba,         \* calculate_agreement's row for (notes2, notes1)
    row_an,         \* analyze_model_agreement's row for (notes1, notes2)
    row_na,         \* analyze_model_agreement's row for (notes2, notes1)
    ppc,            \* position of the pairwise scoring of one recording
    model_outputs,  \* the note list of each source, None for a missing one
    visit,          \* index of the next pair of sources visited
    agreement_results,  \* the rows of calculate_agreement
    agreement_data,     \* the rows of analyze_model_agreement
    fn,             \* the function applied on its own
    arg,            \* its arguments
    result,         \* its value
    rpc,            \* position of run_model_comparison
    sample_files,   \* the stems of the sample files, in the order globbed
    sample_pos,     \* index of the sample of the loop at line 51
    model_pos,      \* index of the model of the loop at line 57
    results,        \* the result rows
    calls           \* the calls made on the models, in order

tvars == <<pc, sample_rate, hop_length, C_db, onset_frames, k, notes, i,
           filtered_notes, transcription, frames_read>>
avars == <<apc, notes1, notes2, row_ab, row_ba, row_an, row_na>>
pvars == <<ppc, model_outputs, visit, agreement_results, agreement_data>>
uvars == <<fn, arg, result>>
rvars == <<rpc, sample_files, sample_pos, model_pos, results, calls>>
vars == <<pc, sample_rate, hop_length, C_db, onset_frames, k, notes, i,
          filtered_notes, transcription, frames_read, apc, notes1, notes2,
          row_ab, row_ba,
          row_an, row_na, ppc, model_outputs, visit, agreement_results,
          agreement_data, fn, arg, result, rpc, sample_files, sample_pos,
          model_pos, results, calls>>

\* a value not yet produced is the empty sequence, a produced value v is <<v>>
None == << >>
Some(v) == << v >>

Abs(x) == IF x < 0 THEN -x ELSE x
Min(x, y) == IF x <= y THEN x ELSE y
Max(x, y) == IF x >= y THEN x ELSE y
SeqsUpTo(S, n) == UNION { [1..m -> S] : m \in 0..n }

-----------------------------------------------------------------------------
(* scipy.signal.find_peaks(spectrum, height=-40, distance=2) *)

\* number of bins of a spectrum, len(x)
Size(spectrum) == Cardinality(DOMAIN spectrum)

\* right end of the plateau that starts at bin b
RECURSIVE PlateauEnd(_, _)
PlateauEnd(spectrum, b) ==
    IF b + 1 <= Size(spectrum) - 1 /\ spectrum[b + 1] = spectrum[b]
    THEN PlateauEnd(spectrum, b + 1)
    ELSE b

\* the local maxima, scanned upward from bin 1; the first and the last bin
\* are never peaks, and a flat peak is reported at the middle of its plateau
RECURSIVE LocalMaxima(_, _)
LocalMaxima(spectrum, b) ==
    IF b >= Size(spectrum) - 1 THEN << >>
    ELSE IF spectrum[b - 1] < spectrum[b]
         THEN LET e == PlateauEnd(spectrum, b)
              IN  IF e <= Size(spectrum) - 2 /\ spectrum[e + 1] < spectrum[b]
                  THEN << (b + e) \div 2 >> \o LocalMaxima(spectrum, e + 2)
                  ELSE LocalMaxima(spectrum, e + 1)
         ELSE LocalMaxima(spectrum, b + 1)

\* a variant that keeps the peaks whose value is above -40
SelectByHeightStrict(spectrum, peaks) ==
    SelectSeq(peaks, LAMBDA p : spectrum[p] > MinDb)

\* height=-40 keeps the peaks whose value is at least -40
SelectByHeight(spectrum, peaks) ==
    SelectSeq(peaks, LAMBDA p : spectrum[p] >= MinDb)

\* distance=2: peaks are visited from the highest to the lowest (of equal
\* ones the later first); a visited peak that is still kept removes its
\* neighbours closer than the distance
RECURSIVE SelectByDistance(_, _, _)
SelectByDistance(spectrum, peaks, todo) ==
    IF todo = {} THEN peaks
    ELSE LET j == CHOOSE x \in todo : \A y \in todo :
                      \/ spectrum[x] > spectrum[y]
                      \/ spectrum[x] = spectrum[y] /\ x >= y
             kept == SelectSeq(peaks,
                        LAMBDA p : p = j \/ Abs(p - j) >= PeakDistance)
         IN  IF \E n \in 1..Len(peaks) : peaks[n] = j
             THEN SelectByDistance(spectrum, kept, todo \ {j})
             ELSE SelectByDistance(spectrum, peaks, todo \ {j})

\* a variant that reports the peaks from the highest bin down
find_peaks_descending(spectrum) ==
    LET byHeight == SelectByHeight(spectrum, LocalMaxima(spectrum, 1))
        peaks    == SelectByDistance(spectrum, byHeight,
                        { byHeight[n] : n \in 1..Len(byHeight) })
    IN  [ n \in 1..Len(peaks) |-> peaks[Len(peaks) + 1 - n] ]

\* the bins of a set from the highest value down, of equal ones the lower
\* bin first
RECURSIVE HighestFirst(_, _)
HighestFirst(spectrum, bins) ==
    IF bins = {} THEN << >>
    ELSE LET top == CHOOSE x \in bins : \A y \in bins :
                        \/ spectrum[x] > spectrum[y]
                        \/ spectrum[x] = spectrum[y] /\ x <= y
         IN  << top >> \o HighestFirst(spectrum, bins \ {top})

\* a variant that reports the peaks from the highest value down
find_peaks_highest_first(spectrum) ==
    LET byHeight == SelectByHeight(spectrum, LocalMaxima(spectrum, 1))
        peaks    == SelectByDistance(spectrum, byHeight,
                        { byHeight[n] : n \in 1..Len(byHeight) })
    IN  HighestFirst(spectrum, { peaks[n] : n \in 1..Len(peaks) })

find_peaks(spectrum) ==
    LET byHeight == SelectByHeight(spectrum, LocalMaxima(spectrum, 1))
    IN  SelectByDistance(spectrum, byHeight,
                         { byHeight[n] : n \in 1..Len(byHeight) })

-----------------------------------------------------------------------------
(* SimplePianoTranscriber.transcribe: the extraction of one onset frame *)

\* C_db.shape[1], the number of frames of a spectrogram
FrameCount(spec) == Cardinality(DOMAIN spec[0])

\* int(self.frame_rate * 0.5) with frame_rate = sample_rate / hop_length
DefaultFrames(sr, hop) == sr \div (2 * hop)
\* int(self.frame_rate * 2)
MaxFrames(sr, hop) == (2 * sr) \div hop

\* librosa.frames_to_time, in samples (seconds times the sample rate)
frames_to_time(frame, hop) == frame * hop

\* a variant that rounds to the nearest integer
velocity_rounded(h, unit) ==
    LET x == (h + 60 * unit) * 2
        clamped == Min(127 * unit, Max(unit, x))
    IN  (2 * clamped + unit) \div (2 * unit)

\* line 67 for a peak height of h/unit dB: (height + 60) * 2 is x/unit, the
\* clamping keeps it within 1 and 127, and int() truncates what is left
velocity_at(h, unit) ==
    LET x == (h + 60 * unit) * 2
        clamped == Min(127 * unit, Max(unit, x))
    IN  clamped \div unit

\* line 67 for a height of a whole number of dB
velocity(height) == velocity_at(height, 1)

\* a variant without the break: the last decayed frame below `stop`
RECURSIVE ScanOffsetLast(_, _, _, _, _)
ScanOffsetLast(spec, peak_idx, check_frame, stop, default) ==
    IF check_frame >= stop THEN default
    ELSE ScanOffsetLast(spec, peak_idx, check_frame + 1, stop,
                        IF spec[peak_idx][check_frame] < DecayDb
                        THEN check_frame ELSE default)

\* the scan of lines 73-76: the first frame from check_frame on, below
\* `stop`, at which the bin has decayed, or the default offset frame
RECURSIVE ScanOffset(_, _, _, _, _)
ScanOffset(spec, peak_idx, check_frame, stop, default) ==
    IF check_frame >= stop THEN default
    ELSE IF spec[peak_idx][check_frame] < DecayDb THEN check_frame
         ELSE ScanOffset(spec, peak_idx, check_frame + 1, stop, default)

\* a variant that extends an early offset to the default duration
offset_frame_extended(spec, peak_idx, onset_frame, sr, hop) ==
    Max(onset_frame + DefaultFrames(sr, hop),
        ScanOffset(spec, peak_idx, onset_frame + 1,
                   Min(onset_frame + MaxFrames(sr, hop), FrameCount(spec)),
                   onset_frame + DefaultFrames(sr, hop)))

\* a variant whose default offset is not counted from the onset frame
offset_frame_from_zero(spec, peak_idx, onset_frame, sr, hop) ==
    ScanOffset(spec, peak_idx, onset_frame + 1,
               Min(onset_frame + MaxFrames(sr, hop), FrameCount(spec)),
               DefaultFrames(sr, hop))

\* lines 70-76
offset_frame(spec, peak_idx, onset_frame, sr, hop) ==
    ScanOffset(spec, peak_idx, onset_frame + 1,
               Min(onset_frame + MaxFrames(sr, hop), FrameCount(spec)),
               onset_frame + DefaultFrames(sr, hop))

\* a variant that numbers the bins from one
NoteOfFromOne(spec, peak_idx, onset_frame, sr, hop) ==
    [ pitch_midi    |-> A0 + peak_idx + 1,
      onset_time_s  |-> frames_to_time(onset_frame, hop),
      offset_time_s |-> frames_to_time(
                            offset_frame(spec, peak_idx, onset_frame, sr, hop),
                            hop),
      velocity      |-> velocity(spec[peak_idx][onset_frame]) ]

\* the note appended at lines 81-87 for one peak
NoteOf(spec, peak_idx, onset_frame, sr, hop) ==
    [ pitch_midi    |-> A0 + peak_idx,
      onset_time_s  |-> frames_to_time(onset_frame, hop),
      offset_time_s |-> frames_to_time(
                            offset_frame(spec, peak_idx, onset_frame, sr, hop),
                            hop),
      velocity      |-> velocity(spec[peak_idx][onset_frame]) ]

\* the notes of one onset frame, one per peak, in the order of the peaks
NotesAt(spec, onset_frame, sr, hop) ==
    LET spectrum == [ b \in DOMAIN spec |-> spec[b][onset_frame] ]
        peaks    == find_peaks(spectrum)
    IN  [ n \in 1..Len(peaks) |->
            NoteOf(spec, peaks[n], onset_frame, sr, hop) ]

\* a variant that reads an onset frame past the end modulo the frame count
FrameNotesWrapped(spec, onset_frame, sr, hop) ==
    IF FrameCount(spec) = 0 THEN << >>
    ELSE NotesAt(spec, onset_frame % FrameCount(spec), sr, hop)

\* a variant that puts a placeholder note for an onset frame past the end
FrameNotesPlaceholder(spec, onset_frame, sr, hop) ==
    IF onset_frame < FrameCount(spec)
    THEN NotesAt(spec, onset_frame, sr, hop)
    ELSE << [ pitch_midi    |-> A0,
              onset_time_s  |-> frames_to_time(onset_frame, hop),
              offset_time_s |-> frames_to_time(onset_frame, hop),
              velocity      |-> 1 ] >>

\* the body of the loop at line 52: the guard of line 53 and the notes of
\* the frame; a frame past the end adds nothing
FrameNotes(spec, onset_frame, sr, hop) ==
    IF onset_frame < FrameCount(spec)
    THEN NotesAt(spec, onset_frame, sr, hop)
    ELSE << >>

-----------------------------------------------------------------------------
(* the frames of the spectrogram that the loop at line 52 reads *)

\* a variant whose scan is not cut at the number of frames
ScanStopUnclipped(spec, onset_frame, sr, hop) ==
    onset_frame + MaxFrames(sr, hop)

\* the end of the range of line 73
ScanStop(spec, onset_frame, sr, hop) ==
    Min(onset_frame + MaxFrames(sr, hop), FrameCount(spec))

\* the check_frame values at which line 74 reads the bin, from check_frame
\* on: the scan ends at `stop`, behind the first decayed frame, or at a
\* read past the end of the row, which raises
RECURSIVE ScanReads(_, _, _, _)
ScanReads(spec, peak_idx, check_frame, stop) ==
    IF check_frame >= stop THEN {}
    ELSE IF check_frame \notin DOMAIN spec[peak_idx] THEN {check_frame}
    ELSE IF spec[peak_idx][check_frame] < DecayDb THEN {check_frame}
    ELSE {check_frame}
            \cup ScanReads(spec, peak_idx, check_frame + 1, stop)

\* the frames read for one onset frame: none when it fails the guard of
\* line 53, else the frame itself (line 55) and the frames scanned for
\* each of its peaks
FramesRead(spec, onset_frame, sr, hop) ==
    IF onset_frame < FrameCount(spec)
    THEN LET peaks == find_peaks([ b \in DOMAIN spec |->
                                      spec[b][onset_frame] ])
         IN  {onset_frame} \cup
             UNION { ScanReads(spec, peaks[n], onset_frame + 1,
                               ScanStop(spec, onset_frame, sr, hop)) :
                     n \in 1..Len(peaks) }
    ELSE {}

-----------------------------------------------------------------------------
(* notes.sort(key=lambda x: x['onset_time_s']): a stable sort *)

\* x goes behind every element whose key is not greater
RECURSIVE InsertByOnset(_, _)
InsertByOnset(sorted, x) ==
    IF sorted = << >> THEN << x >>
    ELSE IF sorted[Len(sorted)].onset_time_s <= x.onset_time_s
         THEN Append(sorted, x)
         ELSE Append(InsertByOnset(SubSeq(sorted, 1, Len(sorted) - 1), x),
                     sorted[Len(sorted)])

RECURSIVE SortFrom(_, _, _)
SortFrom(s, n, sorted) ==
    IF n > Len(s) THEN sorted
    ELSE SortFrom(s, n + 1, InsertByOnset(sorted, s[n]))

\* a variant that leaves the candidates in the order accumulated
SortSkipped(s) == s

SortByOnset(s) == SortFrom(s, 1, << >>)

-----------------------------------------------------------------------------
(* the overlap filter of lines 93-103 *)

\* a variant whose interval is closed at the offset
OverlapTestClosed(existing, note) ==
    /\ existing.pitch_midi = note.pitch_midi
    /\ existing.onset_time_s <= note.onset_time_s
    /\ note.onset_time_s <= existing.offset_time_s

\* the test of lines 98-99
OverlapTest(existing, note) ==
    /\ existing.pitch_midi = note.pitch_midi
    /\ existing.onset_time_s <= note.onset_time_s
    /\ note.onset_time_s < existing.offset_time_s

\* a variant that compares with the most recently kept note alone
OverlapLastOnly(kept, note, j) ==
    Len(kept) >= 1 /\ OverlapTest(kept[Len(kept)], note)

\* the loop of lines 97-101 over the kept notes, from the j-th on
RECURSIVE Overlap(_, _, _)
Overlap(kept, note, j) ==
    IF j > Len(kept) THEN FALSE
    ELSE IF OverlapTest(kept[j], note) THEN TRUE
         ELSE Overlap(kept, note, j + 1)

-----------------------------------------------------------------------------
(* transcribe as a state machine *)

Spectrograms == [ 0..(NBins - 1) -> [ 0..(NFrames - 1) -> Levels ] ]

\* the spectrograms of one frame over the 88 bins of the piano in which one
\* bin is loud and every other bin is silent
OneLoudBin ==
    { [ b \in 0..(PianoBins - 1) |->
          [ f \in 0..0 |-> IF b = loud THEN -10 ELSE -60 ] ] :
      loud \in 0..(PianoBins - 1) }

\* the spectrograms of three bins and more frames than 2 s when the frame
\* rate is low, in which the middle bin alone sounds
LongRows ==
    { [ b \in 0..2 |-> IF b = 1 THEN row
                       ELSE [ f \in 0..(RowFrames - 1) |-> -60 ] ] :
      row \in [ 0..(RowFrames - 1) -> Levels ] }

\* the spectrogram of an empty recording: no frame at all
NoFrames == [ b \in 0..(NBins - 1) |-> << >> ]

AgreementIdle ==
    /\ apc = "idle"
    /\ notes1 = << >>
    /\ notes2 = << >>
    /\ row_ab = None
    /\ row_ba = None
    /\ row_an = None
    /\ row_na = None

PairsIdle ==
    /\ ppc = "idle"
    /\ model_outputs = << >>
    /\ visit = 1
    /\ agreement_results = << >>
    /\ agreement_data = << >>

PartsIdle ==
    /\ fn = "idle"
    /\ arg = << >>
    /\ result = None

RunIdle ==
    /\ rpc = "idle"
    /\ sample_files = << >>
    /\ sample_pos = 1
    /\ model_pos = 1
    /\ results = << >>
    /\ calls = << >>

Init ==
    /\ pc = "extract"
    /\ \E r \in Rates : sample_rate = r[1] /\ hop_length = r[2]
    /\ C_db \in Spectrograms \cup OneLoudBin \cup LongRows \cup {NoFrames}
    /\ onset_frames \in SeqsUpTo(OnsetFrameValues, MaxOnsets)
    /\ k = 1
    /\ notes = << >>
    /\ i = 1
    /\ filtered_notes = << >>
    /\ transcription = None
    /\ frames_read = {}
    /\ AgreementIdle
    /\ PairsIdle
    /\ PartsIdle
    /\ RunIdle

\* one iteration of the loop at line 52
ExtractFrame ==
    /\ pc = "extract"
    /\ k <= Len(onset_frames)
    /\ notes' = notes \o FrameNotes(C_db, onset_frames[k],
                                     sample_rate, hop_length)
    /\ frames_read' = frames_read \cup FramesRead(C_db, onset_frames[k],
                                                   sample_rate, hop_length)
    /\ k' = k + 1
    /\ UNCHANGED <<pc, sample_rate, hop_length, C_db, onset_frames, i,
                   filtered_notes, transcription>>
    /\ UNCHANGED <<avars, pvars, uvars, rvars>>

\* line 90, reached when the loop at line 52 is exhausted
SortNotes ==
    /\ pc = "extract"
    /\ k > Len(onset_frames)
    /\ notes' = SortByOnset(notes)
    /\ pc' = "filter"
    /\ UNCHANGED <<sample_rate, hop_length, C_db, onset_frames, k, i,
                   filtered_notes, transcription, frames_read>>
    /\ UNCHANGED <<avars, pvars, uvars, rvars>>

\* one iteration of the loop at line 94
FilterNote ==
    /\ pc = "filter"
    /\ i <= Len(notes)
    /\ filtered_notes' = IF Overlap(filtered_notes, notes[i], 1)
                         THEN filtered_notes
                         ELSE Append(filtered_notes, notes[i])
    /\ i' = i + 1
    /\ UNCHANGED <<pc, sample_rate, hop_length, C_db, onset_frames, k, notes,
                   transcription, frames_read>>
    /\ UNCHANGED <<avars, pvars, uvars, rvars>>

\* lines 105-109
Return ==
    /\ pc = "filter"
    /\ i > Len(notes)
    /\ transcription' = Some([ notes       |-> filtered_notes,
                               sample_rate |-> sample_rate,
                               hop_length  |-> hop_length ])
    /\ pc' = "done"
    /\ UNCHANGED <<sample_rate, hop_length, C_db, onset_frames, k, notes, i,
                   filtered_notes, frames_read>>
    /\ UNCHANGED <<avars, pvars, uvars, rvars>>

Next ==
    \/ ExtractFrame
    \/ SortNotes
    \/ FilterNote
    \/ Return

Spec == Init /\ [][Next]_vars

-----------------------------------------------------------------------------
(* Agreement scoring *)

RECURSIVE GCD(_, _)
GCD(x, y) == IF y = 0 THEN x ELSE GCD(y, x % y)

\* what a division by zero yields: no value (ZeroDivisionError, or nan from
\* numpy)
DivisionFault == [ num |-> 0, den |-> 0 ]

\* the value of x / y as a fraction in lowest terms, for x >= 0 and y >= 0
Quotient(x, y) ==
    IF y = 0 THEN DivisionFault
    ELSE [ num |-> x \div GCD(x, y), den |-> y \div GCD(x, y) ]
Zero == [ num |-> 0, den |-> 1 ]

(* calculate_agreement, run_comparison.py *)

\* a variant with strict bounds
NoteMatchStrict(n1, n2) ==
    /\ Abs(n1.pitch_midi - n2.pitch_midi) < PitchTolerance
    /\ Abs(n1.onset_time_s - n2.onset_time_s) < TimeToleranceMs

\* the test of lines 214-215
NoteMatch(n1, n2) ==
    /\ Abs(n1.pitch_midi - n2.pitch_midi) <= PitchTolerance
    /\ Abs(n1.onset_time_s - n2.onset_time_s) <= TimeToleranceMs

\* a variant whose break is outside the test: the scan ends after one note
FirstMatchHeadOnly(n1, ns2, j) ==
    IF j > Len(ns2) THEN 0
    ELSE IF NoteMatch(n1, ns2[j]) THEN 1 ELSE 0

\* a variant without the break: every match of n1 is counted
FirstMatchNoBreak(n1, ns2, j) ==
    Cardinality({ n \in j..Len(ns2) : NoteMatch(n1, ns2[n]) })

\* the loop of lines 213-217 from the j-th note of notes2 on: what one note
\* of notes1 adds to matches
RECURSIVE FirstMatch(_, _, _)
FirstMatch(n1, ns2, j) ==
    IF j > Len(ns2) THEN 0
    ELSE IF NoteMatch(n1, ns2[j]) THEN 1
         ELSE FirstMatch(n1, ns2, j + 1)

\* a variant with the two loops exchanged
RECURSIVE CountMatchesSwapped(_, _, _)
CountMatchesSwapped(ns1, ns2, m) ==
    IF m > Len(ns2) THEN 0
    ELSE FirstMatch(ns2[m], ns1, 1) + CountMatchesSwapped(ns1, ns2, m + 1)

\* a variant that counts every pair of notes within the tolerances
CountMatchesPairs(ns1, ns2, m) ==
    Cardinality({ pair \in (m..Len(ns1)) \X (1..Len(ns2)) :
                    NoteMatch(ns1[pair[1]], ns2[pair[2]]) })

\* the loop of lines 212-217 from the m-th note of notes1 on
RECURSIVE CountMatches(_, _, _)
CountMatches(ns1, ns2, m) ==
    IF m > Len(ns1) THEN 0
    ELSE FirstMatch(ns1[m], ns2, 1) + CountMatches(ns1, ns2, m + 1)

\* a variant whose total is the smaller length
calculate_agreement_min(ns1, ns2) ==
    LET matches == CountMatches(ns1, ns2, 1)
        total   == Min(Len(ns1), Len(ns2))
    IN  [ agreement |-> IF total > 0 THEN Quotient(matches, total) ELSE Zero,
          matches   |-> matches,
          total     |-> total ]

\* a variant whose total is the length of the first list
calculate_agreement_first(ns1, ns2) ==
    LET matches == CountMatches(ns1, ns2, 1)
        total   == Len(ns1)
    IN  [ agreement |-> IF total > 0 THEN Quotient(matches, total) ELSE Zero,
          matches   |-> matches,
          total     |-> total ]

\* lines 207-229: the row of one pair of note lists
calculate_agreement(ns1, ns2) ==
    LET matches == CountMatches(ns1, ns2, 1)
        total   == Max(Len(ns1), Len(ns2))
    IN  [ agreement |-> IF total > 0 THEN Quotient(matches, total) ELSE Zero,
          matches   |-> matches,
          total     |-> total ]

(* analyze_model_agreement, compare_models.py *)

\* the test of lines 188-189
AnalyzeNoteMatch(n1, n2) ==
    /\ Abs(n1.pitch_midi - n2.pitch_midi) <= PitchTolerance
    /\ Abs(n1.onset_time_s - n2.onset_time_s) <= TimeToleranceMs

\* the loop of lines 187-191
RECURSIVE AnalyzeFirstMatch(_, _, _)
AnalyzeFirstMatch(n1, ns2, j) ==
    IF j > Len(ns2) THEN 0
    ELSE IF AnalyzeNoteMatch(n1, ns2[j]) THEN 1
         ELSE AnalyzeFirstMatch(n1, ns2, j + 1)

\* the loop of lines 186-191
RECURSIVE AnalyzeCountMatches(_, _, _)
AnalyzeCountMatches(ns1, ns2, m) ==
    IF m > Len(ns1) THEN 0
    ELSE AnalyzeFirstMatch(ns1[m], ns2, 1)
            + AnalyzeCountMatches(ns1, ns2, m + 1)

\* a variant whose denominator is the average length it reports
analyze_model_agreement_avg(ns1, ns2) ==
    LET matches == AnalyzeCountMatches(ns1, ns2, 1)
    IN  [ agreement       |-> IF Len(ns1) > 0 \/ Len(ns2) > 0
                              THEN Quotient(2 * matches, Len(ns1) + Len(ns2))
                              ELSE Zero,
          matching_notes  |-> matches,
          total_notes_avg |-> Quotient(Len(ns1) + Len(ns2), 2) ]

\* lines 181-201: the row of one pair of note lists
analyze_model_agreement(ns1, ns2) ==
    LET matches == AnalyzeCountMatches(ns1, ns2, 1)
    IN  [ agreement       |-> IF Len(ns1) > 0 \/ Len(ns2) > 0
                              THEN Quotient(matches, Max(Len(ns1), Len(ns2)))
                              ELSE Zero,
          matching_notes  |-> matches,
          total_notes_avg |-> Quotient(Len(ns1) + Len(ns2), 2) ]

-----------------------------------------------------------------------------
(* the scorers applied to a pair of note lists, in both orders *)

ScoredNotes ==
    { [ pitch_midi    |-> p,
        onset_time_s  |-> t,
        offset_time_s |-> t + DurationMs(p) ] : p \in Pitches, t \in OnsetsMs }

NoteLists == SeqsUpTo(ScoredNotes, MaxNotes)

TranscriberIdle ==
    /\ pc = "idle"
    /\ sample_rate = 0
    /\ hop_length = 0
    /\ C_db = << >>
    /\ onset_frames = << >>
    /\ k = 1
    /\ notes = << >>
    /\ i = 1
    /\ filtered_notes = << >>
    /\ transcription = None
    /\ frames_read = {}

InitAgree ==
    /\ TranscriberIdle
    /\ apc = "calculate"
    /\ notes1 \in NoteLists
    /\ notes2 \in NoteLists
    /\ row_ab = None
    /\ row_ba = None
    /\ row_an = None
    /\ row_na = None
    /\ PairsIdle
    /\ PartsIdle
    /\ RunIdle

\* calculate_agreement on (notes1, notes2)
CalculateAB ==
    /\ apc = "calculate"
    /\ row_ab' = Some(calculate_agreement(notes1, notes2))
    /\ apc' = "calculate_reversed"
    /\ UNCHANGED <<notes1, notes2, row_ba, row_an, row_na>>
    /\ UNCHANGED <<tvars, pvars, uvars, rvars>>

\* calculate_agreement on (notes2, notes1)
CalculateBA ==
    /\ apc = "calculate_reversed"
    /\ row_ba' = Some(calculate_agreement(notes2, notes1))
    /\ apc' = "analyze"
    /\ UNCHANGED <<notes1, notes2, row_ab, row_an, row_na>>
    /\ UNCHANGED <<tvars, pvars, uvars, rvars>>

\* analyze_model_agreement on (notes1, notes2)
AnalyzeAB ==
    /\ apc = "analyze"
    /\ row_an' = Some(analyze_model_agreement(notes1, notes2))
    /\ apc' = "analyze_reversed"
    /\ UNCHANGED <<notes1, notes2, row_ab, row_ba, row_na>>
    /\ UNCHANGED <<tvars, pvars, uvars, rvars>>

\* analyze_model_agreement on (notes2, notes1)
AnalyzeBA ==
    /\ apc = "analyze_reversed"
    /\ row_na' = Some(analyze_model_agreement(notes2, notes1))
    /\ apc' = "done"
    /\ UNCHANGED <<notes1, notes2, row_ab, row_ba, row_an>>
    /\ UNCHANGED <<tvars, pvars, uvars, rvars>>

NextAgree ==
    \/ CalculateAB
    \/ CalculateBA
    \/ AnalyzeAB
    \/ AnalyzeBA

SpecAgree == InitAgree /\ [][NextAgree]_vars

-----------------------------------------------------------------------------
(* The pairs of sources of one recording, as both scripts enumerate them *)

\* the keys of the dict `models` of compare_models, run_comparison.py
CalcModels == <<"basic_pitch", "crepe_onset", "spectral">>
\* the list `models` of analyze_model_agreement
AnalyzeModels == <<"basic_pitch", "crepe_onset", "piano_transformer">>

\* the model names in the ascending order of str comparison
NamesAscending ==
    <<"basic_pitch", "crepe_onset", "piano_transformer", "spectral">>
NameRank(name) ==
    CHOOSE n \in 1..Len(NamesAscending) : NamesAscending[n] = name
\* model1 >= model2 on strings
NameGE(name1, name2) == NameRank(name1) >= NameRank(name2)

\* the dict that holds the note lists of the sources that produced one, in
\* the order of insertion, which is the order of `names`
OutputsDict(names, outputs) ==
    LET present == SelectSeq([ n \in 1..Len(names) |-> n ],
                             LAMBDA n : outputs[n] # None)
    IN  [ n \in 1..Len(present) |->
            [ key |-> names[present[n]], notes |-> outputs[present[n]][1] ] ]

Keys(dict) == [ n \in 1..Len(dict) |-> dict[n].key ]
HasKey(dict, key) == \E n \in 1..Len(dict) : dict[n].key = key
Lookup(dict, key) ==
    dict[CHOOSE n \in 1..Len(dict) : dict[n].key = key].notes

\* a variant whose inner loop runs over model_names[i:]
RECURSIVE PairsFromSelf(_, _, _)
PairsFromSelf(model_names, m, n) ==
    IF m > Len(model_names) THEN << >>
    ELSE IF n > Len(model_names)
         THEN PairsFromSelf(model_names, m + 1, m + 1)
         ELSE << <<model_names[m], model_names[n]>> >>
                  \o PairsFromSelf(model_names, m, n + 1)

ModelPairsWithSelf(model_names) == PairsFromSelf(model_names, 1, 1)

\* the loops of lines 205-206 of run_comparison.py: model1 is the m-th name
\* and model2 runs over the names behind it
RECURSIVE PairsFrom(_, _, _)
PairsFrom(model_names, m, n) ==
    IF m > Len(model_names) THEN << >>
    ELSE IF n > Len(model_names)
         THEN PairsFrom(model_names, m + 1, m + 2)
         ELSE << <<model_names[m], model_names[n]>> >>
                  \o PairsFrom(model_names, m, n + 1)

\* the (model1, model2) for which calculate_agreement appends a row
ModelPairs(model_names) == PairsFrom(model_names, 1, 2)

\* the (model1, model2) of the loops of lines 176-177 of compare_models.py:
\* every model against every model
AnalyzeVisits ==
    [ n \in 1..(Len(AnalyzeModels) * Len(AnalyzeModels)) |->
        << AnalyzeModels[((n - 1) \div Len(AnalyzeModels)) + 1],
           AnalyzeModels[((n - 1) % Len(AnalyzeModels)) + 1] >> ]

\* the test of line 178
AnalyzeSkips(dict, model1, model2) ==
    \/ NameGE(model1, model2)
    \/ ~HasKey(dict, model1)
    \/ ~HasKey(dict, model2)

\* the note lists a source produces
SourceNotes ==
    { n \in ScoredNotes : <<n.pitch_midi, n.onset_time_s>>
                            \in { <<60, 0>>, <<61, 50>>, <<62, 51>> } }
SourceLists == SeqsUpTo(SourceNotes, MaxNotes)

InitPairs ==
    /\ TranscriberIdle
    /\ AgreementIdle
    /\ PartsIdle
    /\ RunIdle
    /\ ppc = "calculate"
    /\ model_outputs \in [ 1..Len(CalcModels) ->
                             {None} \cup { Some(l) : l \in SourceLists } ]
    /\ visit = 1
    /\ agreement_results = << >>
    /\ agreement_data = << >>

\* one iteration of the inner loop at line 206 of run_comparison.py
CalculatePair ==
    LET models == OutputsDict(CalcModels, model_outputs)
        pairs  == ModelPairs(Keys(models))
    IN  /\ ppc = "calculate"
        /\ visit <= Len(pairs)
        /\ LET model1 == pairs[visit][1]
               model2 == pairs[visit][2]
               row == calculate_agreement(Lookup(models, model1),
                                          Lookup(models, model2))
           IN  agreement_results' =
                   Append(agreement_results,
                          [ model1    |-> model1,
                            model2    |-> model2,
                            agreement |-> row.agreement,
                            matches   |-> row.matches,
                            total     |-> row.total ])
        /\ visit' = visit + 1
        /\ UNCHANGED <<ppc, model_outputs, agreement_data>>
        /\ UNCHANGED <<tvars, avars, uvars, rvars>>

\* the loops of lines 205-206 are exhausted for the recording
CalculateEnd ==
    /\ ppc = "calculate"
    /\ visit > Len(ModelPairs(Keys(OutputsDict(CalcModels, model_outputs))))
    /\ ppc' = "analyze"
    /\ visit' = 1
    /\ UNCHANGED <<model_outputs, agreement_results, agreement_data>>
    /\ UNCHANGED <<tvars, avars, uvars, rvars>>

\* lines 172-173 of compare_models.py
AnalyzeTooFew ==
    /\ ppc = "analyze"
    /\ Len(OutputsDict(AnalyzeModels, model_outputs)) < 2
    /\ ppc' = "done"
    /\ UNCHANGED <<model_outputs, visit, agreement_results, agreement_data>>
    /\ UNCHANGED <<tvars, avars, uvars, rvars>>

\* one iteration of the inner loop at line 177 of compare_models.py
AnalyzePair ==
    LET dict == OutputsDict(AnalyzeModels, model_outputs)
    IN  /\ ppc = "analyze"
        /\ Len(dict) >= 2
        /\ visit <= Len(AnalyzeVisits)
        /\ LET model1 == AnalyzeVisits[visit][1]
               model2 == AnalyzeVisits[visit][2]
           IN  agreement_data' =
                   IF AnalyzeSkips(dict, model1, model2)
                   THEN agreement_data
                   ELSE LET row == analyze_model_agreement(
                                       Lookup(dict, model1),
                                       Lookup(dict, model2))
                        IN  Append(agreement_data,
                               [ model_pair      |-> <<model1, model2>>,
                                 agreement       |-> row.agreement,
                                 matching_notes  |-> row.matching_notes,
                                 total_notes_avg |-> row.total_notes_avg ])
        /\ visit' = visit + 1
        /\ UNCHANGED <<ppc, model_outputs, agreement_results>>
        /\ UNCHANGED <<tvars, avars, uvars, rvars>>

\* the loops of lines 176-177 are exhausted for the recording
AnalyzeEnd ==
    /\ ppc = "analyze"
    /\ Len(OutputsDict(AnalyzeModels, model_outputs)) >= 2
    /\ visit > Len(AnalyzeVisits)
    /\ ppc' = "done"
    /\ UNCHANGED <<model_outputs, visit, agreement_results, agreement_data>>
    /\ UNCHANGED <<tvars, avars, uvars, rvars>>

NextPairs ==
    \/ CalculatePair
    \/ CalculateEnd
    \/ AnalyzeTooFew
    \/ AnalyzePair
    \/ AnalyzeEnd

SpecPairs == InitPairs /\ [][NextPairs]_vars

-----------------------------------------------------------------------------
(* The functions of the extractor, each applied on its own to the values   *)
(* one spectrogram column, one spectrogram row or one peak height can take *)

\* values of a column: silent, just below, at and just above the height
\* threshold, and loud
PeakLevels == {-60, -41, -40, -39, -10}
Spectra == [ 0..(NBins - 1) -> PeakLevels ]

\* values of a row: decayed, at the decay threshold, and loud
RowLevels == {-60, -50, -10}
\* a row, a frame of it at which the bin is a peak, and a frame rate
Scans ==
    { [ row |-> row, onset_frame |-> f, rate |-> rate ] :
        row \in [ 0..(RowFrames - 1) -> RowLevels ],
        f \in 0..(RowFrames - 1),
        rate \in Rates }
PeakScans == { scan \in Scans : scan.row[scan.onset_frame] >= MinDb }

\* peak heights in tenths of a dB
Tenth == 10
Heights ==
    (-800..-790) \cup (-605..-590) \cup (-400..-390) \cup (-5..0)
        \cup (30..40) \cup {100}
HeightPairs ==
    { [ low |-> h1, high |-> h2 ] : h1 \in Heights, h2 \in Heights }

InitParts ==
    /\ TranscriberIdle
    /\ AgreementIdle
    /\ PairsIdle
    /\ RunIdle
    /\ result = None
    /\ \/ fn = "find_peaks" /\ arg \in Spectra
       \/ fn = "offset_frame" /\ arg \in PeakScans
       \/ fn = "velocity" /\ arg \in { hp \in HeightPairs : hp.low <= hp.high }

\* lines 58-60 on one column
ApplyFindPeaks ==
    /\ fn = "find_peaks"
    /\ result = None
    /\ result' = Some(find_peaks(arg))
    /\ UNCHANGED <<fn, arg>>
    /\ UNCHANGED <<tvars, avars, pvars, rvars>>

\* lines 70-76 on the row of one peak
ApplyOffsetFrame ==
    /\ fn = "offset_frame"
    /\ result = None
    /\ result' = Some(offset_frame([ b \in 0..0 |-> arg.row ], 0,
                                   arg.onset_frame, arg.rate[1], arg.rate[2]))
    /\ UNCHANGED <<fn, arg>>
    /\ UNCHANGED <<tvars, avars, pvars, rvars>>

\* line 67 on two peak heights
ApplyVelocity ==
    /\ fn = "velocity"
    /\ result = None
    /\ result' = Some([ low  |-> velocity_at(arg.low, Tenth),
                        high |-> velocity_at(arg.high, Tenth) ])
    /\ UNCHANGED <<fn, arg>>
    /\ UNCHANGED <<tvars, avars, pvars, rvars>>

NextParts ==
    \/ ApplyFindPeaks
    \/ ApplyOffsetFrame
    \/ ApplyVelocity

SpecParts == InitParts /\ [][NextParts]_vars

-----------------------------------------------------------------------------
(* The ratios of the comparison scripts, each computed on its own *)

\* arithmetic of fractions; a fault in an operand is a fault of the result
FracAdd(x, y) ==
    IF x.den = 0 \/ y.den = 0 THEN DivisionFault
    ELSE Quotient(x.num * y.den + y.num * x.den, x.den * y.den)
FracMul(x, y) ==
    IF x.den = 0 \/ y.den = 0 THEN DivisionFault
    ELSE Quotient(x.num * y.num, x.den * y.den)
FracDiv(x, y) ==
    IF x.den = 0 \/ y.den = 0 THEN DivisionFault
    ELSE Quotient(x.num * y.den, x.den * y.num)
Whole(n) == [ num |-> n, den |-> 1 ]

\* round(onset_time_s, 2) of an onset in ms, in hundredths of a second; the
\* onsets of the model are never halfway between two hundredths
Round2(ms) == (ms + 5) \div 10

\* lines 69-72 of base_wrapper.py: the set of (pitch, rounded onset)
OnsetSet(ns) ==
    { <<ns[n].pitch_midi, Round2(ns[n].onset_time_s)>> : n \in 1..Len(ns) }

\* a variant of line 78 without the test of the denominator
PrecisionUnguarded(tp, fp) == Quotient(tp, tp + fp)

\* line 78
Precision(tp, fp) == IF tp + fp > 0 THEN Quotient(tp, tp + fp) ELSE Zero
\* line 79
Recall(tp, fneg) == IF tp + fneg > 0 THEN Quotient(tp, tp + fneg) ELSE Zero
\* line 80
F1(precision, recall) ==
    IF FracAdd(precision, recall).num > 0
    THEN FracDiv(FracMul(Whole(2), FracMul(precision, recall)),
                 FracAdd(precision, recall))
    ELSE Zero

\* lines 66-89 of base_wrapper.py
evaluate_against_ground_truth(predicted, ground_truth) ==
    LET pred_onsets == OnsetSet(predicted)
        true_onsets == OnsetSet(ground_truth)
        tp   == Cardinality(pred_onsets \cap true_onsets)
        fp   == Cardinality(pred_onsets \ true_onsets)
        fneg == Cardinality(true_onsets \ pred_onsets)
        precision == Precision(tp, fp)
        recall    == Recall(tp, fneg)
    IN  [ onset_precision |-> precision,
          onset_recall    |-> recall,
          onset_f1        |-> F1(precision, recall),
          true_positives  |-> tp,
          false_positives |-> fp,
          false_negatives |-> fneg ]

\* the sum of a sequence of numbers
RECURSIVE SumOf(_)
SumOf(xs) == IF xs = << >> THEN 0 ELSE Head(xs) + SumOf(Tail(xs))

\* lines 72-73 of compare_models.py, line 180 of run_comparison.py, on the
\* confidences of the notes in hundredths: np.mean, or 0 without a note
avg_confidence(confidences) ==
    IF Len(confidences) > 0
    THEN Quotient(SumOf(confidences), Len(confidences))
    ELSE Zero

\* confidences of notes, in hundredths
Confidences == {0, 50, 100}
ConfidenceLists == SeqsUpTo(Confidences, MaxNotes)
ListPairs ==
    { [ first |-> a, second |-> b ] : a \in NoteLists, b \in NoteLists }

InitRatios ==
    /\ TranscriberIdle
    /\ AgreementIdle
    /\ PairsIdle
    /\ RunIdle
    /\ result = None
    /\ \/ fn = "agreement" /\ arg \in ListPairs
       \/ fn = "evaluate_against_ground_truth" /\ arg \in ListPairs
       \/ fn = "avg_confidence" /\ arg \in ConfidenceLists

\* the agreement of both scripts for one pair of note lists
ApplyAgreement ==
    /\ fn = "agreement"
    /\ result = None
    /\ result' = Some([ calculate |->
                            calculate_agreement(arg.first, arg.second),
                        analyze |->
                            analyze_model_agreement(arg.first, arg.second) ])
    /\ UNCHANGED <<fn, arg>>
    /\ UNCHANGED <<tvars, avars, pvars, rvars>>

\* evaluate_against_ground_truth(predicted, ground_truth)
ApplyEvaluate ==
    /\ fn = "evaluate_against_ground_truth"
    /\ result = None
    /\ result' = Some(evaluate_against_ground_truth(arg.first, arg.second))
    /\ UNCHANGED <<fn, arg>>
    /\ UNCHANGED <<tvars, avars, pvars, rvars>>

\* the avg_confidence of a result row
ApplyAvgConfidence ==
    /\ fn = "avg_confidence"
    /\ result = None
    /\ result' = Some(avg_confidence(arg))
    /\ UNCHANGED <<fn, arg>>
    /\ UNCHANGED <<tvars, avars, pvars, rvars>>

NextRatios ==
    \/ ApplyAgreement
    \/ ApplyEvaluate
    \/ ApplyAvgConfidence

SpecRatios == InitRatios /\ [][NextRatios]_vars

-----------------------------------------------------------------------------
(* run_model_comparison of compare_models.py: every model on every sample *)

\* lines 27-31: the models, in the order of the dict
RunModels == <<"basic_pitch", "crepe_onset", "piano_transformer">>

\* stems of the *.mp3 files of the samples directory
Stems == <<"a", "b", "c">>
SampleNames == { Stems[n] : n \in 1..MaxSamples }
\* line 43: the files found, in whatever order glob yields them
SampleLists ==
    { fs \in SeqsUpTo(SampleNames, MaxSamples) :
        \A x, y \in DOMAIN fs : x # y => fs[x] # fs[y] }

\* what a transcribe that returns has produced: no note, or two notes with
\* their confidences in hundredths, and the inference time in ms
RunTranscriptions ==
    { [ notes |-> ns, metadata |-> [ inference_time |-> 120 ] ] :
      ns \in { << >>, << [ confidence |-> 50 ], [ confidence |-> 100 ] >> } }

\* str(e) of what transcribe and save_output raise
TranscribeErrors == { "cannot load audio" }
SaveErrors == { "cannot write output" }

\* one call on a model, with what it raised
Call(op, sample_name, model_name, raised) ==
    [ op |-> op, sample |-> sample_name, model |-> model_name,
      raised |-> raised ]

\* lines 67-74: the row of a pair transcribed and saved
SuccessRow(sample_name, model_name, t) ==
    [ sample         |-> sample_name,
      model          |-> model_name,
      num_notes      |-> Len(t.notes),
      inference_time |-> t.metadata.inference_time,
      avg_confidence |->
          avg_confidence([ n \in DOMAIN t.notes |-> t.notes[n].confidence ]) ]

\* lines 81-88: the row of a pair that raised
ErrorRow(sample_name, model_name, e) ==
    [ sample         |-> sample_name,
      model          |-> model_name,
      num_notes      |-> 0,
      inference_time |-> 0,
      avg_confidence |-> Zero,
      error          |-> e ]

\* a variant whose handler records nothing
OnExceptionSilent(rs, sample_name, model_name, e) == rs

\* lines 79-88: the handler of the try of line 58
OnException(rs, sample_name, model_name, e) ==
    Append(rs, ErrorRow(sample_name, model_name, e))

\* the loops of lines 51 and 57 move on to the next model, or to the first
\* model of the next sample
NextPair ==
    IF model_pos < Len(RunModels)
    THEN model_pos' = model_pos + 1 /\ sample_pos' = sample_pos
    ELSE model_pos' = 1 /\ sample_pos' = sample_pos + 1

sample_name == sample_files[sample_pos]
model_name == RunModels[model_pos]

InitRun ==
    /\ TranscriberIdle
    /\ AgreementIdle
    /\ PairsIdle
    /\ PartsIdle
    /\ rpc = "run"
    /\ sample_files \in SampleLists
    /\ sample_pos = 1
    /\ model_pos = 1
    /\ results = << >>
    /\ calls = << >>

\* lines 58-77: transcribe and save_output return
RunSucceeds ==
    /\ rpc = "run"
    /\ sample_pos <= Len(sample_files)
    /\ \E t \in RunTranscriptions :
        results' = Append(results, SuccessRow(sample_name, model_name, t))
    /\ calls' = calls \o
           << Call("transcribe", sample_name, model_name, None),
              Call("save_output", sample_name, model_name, None) >>
    /\ NextPair
    /\ UNCHANGED <<rpc, sample_files>>
    /\ UNCHANGED <<tvars, avars, pvars, uvars>>

\* lines 60, 79-88: transcribe raises
TranscribeRaises ==
    /\ rpc = "run"
    /\ sample_pos <= Len(sample_files)
    /\ \E e \in TranscribeErrors :
        /\ results' = OnException(results, sample_name, model_name, e)
        /\ calls' = Append(calls, Call("transcribe", sample_name,
                                       model_name, Some(e)))
    /\ NextPair
    /\ UNCHANGED <<rpc, sample_files>>
    /\ UNCHANGED <<tvars, avars, pvars, uvars>>

\* lines 60-64, 79-88: transcribe returns and save_output raises
SaveOutputRaises ==
    /\ rpc = "run"
    /\ sample_pos <= Len(sample_files)
    /\ \E e \in SaveErrors :
        /\ results' = OnException(results, sample_name, model_name, e)
        /\ calls' = calls \o
               << Call("transcribe", sample_name, model_name, None),
                  Call("save_output", sample_name, model_name, Some(e)) >>
    /\ NextPair
    /\ UNCHANGED <<rpc, sample_files>>
    /\ UNCHANGED <<tvars, avars, pvars, uvars>>

\* lines 91-99: no sample is left, the rows are returned
RunReturn ==
    /\ rpc = "run"
    /\ sample_pos > Len(sample_files)
    /\ rpc' = "done"
    /\ UNCHANGED <<sample_files, sample_pos, model_pos, results, calls>>
    /\ UNCHANGED <<tvars, avars, pvars, uvars>>

NextRun ==
    \/ RunSucceeds
    \/ TranscribeRaises
    \/ SaveOutputRaises
    \/ RunReturn

SpecRun == InitRun /\ [][NextRun]_vars

-----------------------------------------------------------------------------
(* Properties of the extractor *)

\* the notes returned
ReturnedNotes == transcription[1].notes

IntervalsOverlap(x, y) ==
    Max(x.onset_time_s, y.onset_time_s) < Min(x.offset_time_s, y.offset_time_s)

Returned == transcription # None

\* C1: the returned note list holds no two distinct notes of the same
\* pitch_midi whose half-open intervals [onset_time_s, offset_time_s)
\* overlap, whatever the spectrogram and the order or repetition of the
\* onset frames.
C1_NoOverlap ==
    Returned =>
        \A m, n \in 1..Len(ReturnedNotes) :
            (m # n /\ ReturnedNotes[m].pitch_midi
                        = ReturnedNotes[n].pitch_midi)
            => ~IntervalsOverlap(ReturnedNotes[m],
                                 ReturnedNotes[n])

\* a run in which a candidate was rejected and two notes of one pitch
\* were returned, the onset frames being unsorted
C1_Witness ==
    /\ Returned
    /\ Len(notes) > Len(ReturnedNotes)
    /\ \E a, b \in 1..Len(onset_frames) :
            a < b /\ onset_frames[a] > onset_frames[b]
    /\ \E m, n \in 1..Len(ReturnedNotes) :
            /\ m < n
            /\ ReturnedNotes[m].pitch_midi
                 = ReturnedNotes[n].pitch_midi

\* C2: a step of the overlap filter rejects the incoming candidate if and
\* only if some already kept note has the same pitch_midi and
\* kept.onset_time_s <= candidate.onset_time_s < kept.offset_time_s; a
\* candidate that is not rejected is appended, the first candidate is
\* always kept, and no step of the program removes or reorders a kept note.
C2_FilterRule ==
    [][ /\ (pc = "filter" /\ i' = i + 1) =>
            LET c   == notes[i]
                hit == \E n \in 1..Len(filtered_notes) :
                          /\ filtered_notes[n].pitch_midi = c.pitch_midi
                          /\ filtered_notes[n].onset_time_s <= c.onset_time_s
                          /\ c.onset_time_s < filtered_notes[n].offset_time_s
            IN  /\ hit => filtered_notes' = filtered_notes
                /\ ~hit => filtered_notes' = Append(filtered_notes, c)
                /\ i = 1 => filtered_notes' = << c >>
        /\ Len(filtered_notes') >= Len(filtered_notes)
        /\ SubSeq(filtered_notes', 1, Len(filtered_notes)) = filtered_notes
        /\ transcription' # None => transcription'[1].notes = filtered_notes
      ]_vars

\* the filter has rejected a candidate and thereafter kept another one
C2_Witness ==
    /\ pc = "filter"
    /\ Len(filtered_notes) >= 2
    /\ \E n \in 1..(i - 1) :
          /\ notes[n] # filtered_notes[Len(filtered_notes)]
          /\ \E m \in 1..(Len(filtered_notes) - 1) :
                /\ filtered_notes[m].pitch_midi = notes[n].pitch_midi
                /\ filtered_notes[m].onset_time_s <= notes[n].onset_time_s
                /\ notes[n].onset_time_s < filtered_notes[m].offset_time_s
    /\ filtered_notes[Len(filtered_notes)] = notes[i - 1]

\* C3: the returned notes are in non-decreasing onset_time_s order,
\* whatever the order of the onset frames.
C3_OnsetOrder ==
    Returned =>
        \A m, n \in 1..Len(ReturnedNotes) :
            m < n => ReturnedNotes[m].onset_time_s
                        <= ReturnedNotes[n].onset_time_s

\* descending onset frames were supplied and notes of both were returned
C3_Witness ==
    /\ Returned
    /\ \E a, b \in 1..Len(onset_frames) :
          /\ a < b
          /\ onset_frames[a] > onset_frames[b]
          /\ \E m, n \in 1..Len(ReturnedNotes) :
                /\ ReturnedNotes[m].onset_time_s
                     = frames_to_time(onset_frames[b], hop_length)
                /\ ReturnedNotes[n].onset_time_s
                     = frames_to_time(onset_frames[a], hop_length)

PitchAscendingOnTies ==
    \A m, n \in 1..Len(ReturnedNotes) :
        (m < n /\ ReturnedNotes[m].onset_time_s
                    = ReturnedNotes[n].onset_time_s)
        => ReturnedNotes[m].pitch_midi < ReturnedNotes[n].pitch_midi

PitchNotDescendingOnTies ==
    \A m, n \in 1..Len(ReturnedNotes) :
        (m < n /\ ReturnedNotes[m].onset_time_s
                    = ReturnedNotes[n].onset_time_s)
        => ReturnedNotes[m].pitch_midi <= ReturnedNotes[n].pitch_midi

Repeated(s) == \E a, b \in 1..Len(s) : a # b /\ s[a] = s[b]

\* C4 as stated: returned notes of equal onset_time_s are in ascending
\* pitch_midi order, also when onset frames are unsorted or repeated (read
\* in the weakest way: no note is followed by a lower one of its onset).
C4_Original == Returned => PitchNotDescendingOnTies

\* C4 as amended: returned notes of equal onset_time_s are in strictly
\* ascending pitch_midi order when the onset frames are not repeated, and
\* also when they are repeated provided the default duration
\* int(frame_rate * 0.5) is at least one frame.
C4_PitchOrderOnTies ==
    (Returned /\ (DefaultFrames(sample_rate, hop_length) >= 1
                    \/ ~Repeated(onset_frames)))
    => PitchAscendingOnTies

\* a repeated and unsorted sequence of onset frames returned two notes of
\* one onset time
C4_Witness ==
    /\ Returned
    /\ Repeated(onset_frames)
    /\ \E a, b \in 1..Len(onset_frames) :
            a < b /\ onset_frames[a] > onset_frames[b]
    /\ \E m, n \in 1..Len(ReturnedNotes) :
          /\ m < n
          /\ ReturnedNotes[m].onset_time_s
               = ReturnedNotes[n].onset_time_s

-----------------------------------------------------------------------------
(* Properties of the agreement scorers *)

\* two notes within one semitone and 50 ms of each other
Within(n1, n2) ==
    /\ n1.pitch_midi - n2.pitch_midi \in -1..1
    /\ n1.onset_time_s - n2.onset_time_s \in -50..50

\* the positions of a whose note has a note of b within the tolerances
MatchedIn(a, b) ==
    { m \in 1..Len(a) : \E n \in 1..Len(b) : Within(a[m], b[n]) }

Scored == apc = "done"

\* x is the value of m / t
IsRatio(x, m, t) == x.den > 0 /\ x.num * t = m * x.den

\* C5: a note of the first list matches a note of the second if and only
\* if their pitches differ by at most 1 and their onsets by at most 50 ms,
\* both bounds included; offsets play no part.  So a pair of one-note lists
\* scores one match exactly when the two notes are within both bounds, and
\* any pair of lists scores a match exactly when some pair of notes is.
C5_MatchRule ==
    Scored =>
        /\ row_ab[1].matches > 0
             <=> \E m \in 1..Len(notes1), n \in 1..Len(notes2) :
                    Within(notes1[m], notes2[n])
        /\ row_an[1].matching_notes > 0
             <=> \E m \in 1..Len(notes1), n \in 1..Len(notes2) :
                    Within(notes1[m], notes2[n])
        /\ (Len(notes1) = 1 /\ Len(notes2) = 1) =>
             /\ row_ab[1].matches = 1 <=> Within(notes1[1], notes2[1])
             /\ row_an[1].matching_notes = 1 <=> Within(notes1[1], notes2[1])

\* two notes exactly at both limits, of different offsets, were matched
C5_Witness ==
    /\ Scored
    /\ Len(notes1) = 1
    /\ Len(notes2) = 1
    /\ Abs(notes1[1].pitch_midi - notes2[1].pitch_midi) = 1
    /\ Abs(notes1[1].onset_time_s - notes2[1].onset_time_s) = 50
    /\ notes1[1].offset_time_s # notes2[1].offset_time_s
    /\ row_ab[1].matches = 1
    /\ row_an[1].matching_notes = 1

\* C6: the match count is the number of notes of the first list that have
\* at least one note of the second list within the tolerances: a note of
\* the first list counts once however many notes it matches, and a note of
\* the second list is not used up by a match.
C6_MatchCount ==
    Scored =>
        /\ row_ab[1].matches = Cardinality(MatchedIn(notes1, notes2))
        /\ row_ba[1].matches = Cardinality(MatchedIn(notes2, notes1))
        /\ row_an[1].matching_notes = Cardinality(MatchedIn(notes1, notes2))
        /\ row_na[1].matching_notes = Cardinality(MatchedIn(notes2, notes1))

\* two notes of the first list each match both notes of the second, and
\* two matches were counted
C6_Witness ==
    /\ Scored
    /\ Len(notes1) = 2
    /\ Len(notes2) = 2
    /\ notes2[1] # notes2[2]
    /\ \A m \in 1..2, n \in 1..2 : Within(notes1[m], notes2[n])
    /\ row_ab[1].matches = 2
    /\ row_an[1].matching_notes = 2

LargerLength == IF Len(notes1) >= Len(notes2) THEN Len(notes1) ELSE Len(notes2)

C8_Original ==
    Scored =>
        /\ row_ab[1].agreement = row_ba[1].agreement
        /\ row_an[1].agreement = row_na[1].agreement

\* every note of either list has at most one note of the other within the
\* tolerances
OneToOne ==
    /\ \A m \in 1..Len(notes1) :
          Cardinality({ n \in 1..Len(notes2) :
                          Within(notes1[m], notes2[n]) }) <= 1
    /\ \A n \in 1..Len(notes2) :
          Cardinality({ m \in 1..Len(notes1) :
                          Within(notes1[m], notes2[n]) }) <= 1

\* C8 as amended: the agreement of (a, b) equals the agreement of (b, a)
\* whenever no note of either list has more than one note of the other
\* within the tolerances.
C8_SymmetricWhenOneToOne ==
    (Scored /\ OneToOne) =>
        /\ row_ab[1].agreement = row_ba[1].agreement
        /\ row_an[1].agreement = row_na[1].agreement

\* lists of different lengths, matched one to one, were scored both ways
C8_Witness ==
    /\ Scored
    /\ OneToOne
    /\ Len(notes1) # Len(notes2)
    /\ row_ab[1].matches >= 1
    /\ row_ba[1].matches >= 1

ScoredNote(p, t) ==
    [ pitch_midi |-> p, onset_time_s |-> t, offset_time_s |-> t + DurationMs(p) ]

\* C9: some pair of note lists scores differently in the two orders: of
\* a = [60 at 0 ms] and b = [61 at 50 ms, 60 at 0 ms], the one note of a is
\* matched (1 of 2) and both notes of b are (2 of 2).
C9_NotCommutative ==
    ( /\ Scored
      /\ notes1 = << ScoredNote(60, 0) >>
      /\ notes2 = << ScoredNote(61, 50), ScoredNote(60, 0) >> )
    => /\ row_ab[1].agreement # row_ba[1].agreement
       /\ row_an[1].agreement # row_na[1].agreement
       /\ row_ab[1].matches < row_ba[1].matches

\* a pair of lists was scored in both orders with different agreements
C9_Witness ==
    /\ Scored
    /\ Len(notes1) < Len(notes2)
    /\ row_ab[1].agreement # row_ba[1].agreement
    /\ row_an[1].agreement # row_na[1].agreement

\* C10 as stated: the agreement is the fraction of the notes of the larger
\* list that have a note of the other list within the tolerances, whichever
\* list is passed first.
C10_Original ==
    Scored =>
        LET firstLarger == Len(notes1) >= Len(notes2)
            matched == IF firstLarger THEN MatchedIn(notes1, notes2)
                       ELSE MatchedIn(notes2, notes1)
        IN  LargerLength > 0 =>
              /\ IsRatio(row_ab[1].agreement, Cardinality(matched),
                         LargerLength)
              /\ IsRatio(row_an[1].agreement, Cardinality(matched),
                         LargerLength)

\* C10 as amended: the agreement is the number of notes of the FIRST list
\* that have a note of the second within the tolerances, divided by the
\* length of the larger list; it is the fraction of the larger list's notes
\* that are matched when the first list is at least as long as the second.
C10_FractionOfFirst ==
    (Scored /\ LargerLength > 0) =>
        /\ IsRatio(row_ab[1].agreement,
                   Cardinality(MatchedIn(notes1, notes2)), LargerLength)
        /\ IsRatio(row_an[1].agreement,
                   Cardinality(MatchedIn(notes1, notes2)), LargerLength)
        /\ IsRatio(row_ba[1].agreement,
                   Cardinality(MatchedIn(notes2, notes1)), LargerLength)
        /\ Len(notes1) >= Len(notes2) =>
             IsRatio(row_ab[1].agreement,
                     Cardinality(MatchedIn(notes1, notes2)), Len(notes1))

\* a longer first list, part of whose notes are matched, was scored
C10_Witness ==
    /\ Scored
    /\ Len(notes1) > Len(notes2)
    /\ Len(notes2) >= 1
    /\ row_ab[1].matches = 1
    /\ row_ab[1].agreement = [ num |-> 1, den |-> 2 ]

-----------------------------------------------------------------------------
(* Properties of the pairwise scoring of one recording *)

PairsScored == ppc = "done"

\* the sources that produced a note list
Available == { p \in 1..Len(CalcModels) : model_outputs[p] # None }
NotesOfSource(p) == model_outputs[p][1]

\* the two sources of the n-th row of either script
CalcPairOf(n) == <<agreement_results[n].model1, agreement_results[n].model2>>
AnalyzePairOf(n) == agreement_data[n].model_pair

\* `count` rows, none of a source with itself, and one row for every two
\* available sources
OncePerPair(pairOf(_), count, names) ==
    /\ 2 * count = Cardinality(Available) * (Cardinality(Available) - 1)
    /\ \A n \in 1..count : pairOf(n)[1] # pairOf(n)[2]
    /\ \A p, q \in Available :
         p < q => Cardinality({ n \in 1..count :
                      {pairOf(n)[1], pairOf(n)[2]} = {names[p], names[q]} }) = 1

\* the score of lists a and b, in that order
ScoreOf(a, b, matches, agreement) ==
    /\ matches = Cardinality(MatchedIn(a, b))
    /\ IF Len(a) = 0 /\ Len(b) = 0
       THEN agreement = Zero
       ELSE IsRatio(agreement, matches, IF Len(a) >= Len(b) THEN Len(a)
                                        ELSE Len(b))

\* C11: for a recording with N available sources each script appends
\* exactly one row for each of the N(N-1)/2 unordered pairs of sources:
\* no source is scored against itself, no pair is scored in both orders,
\* and the row of a pair is the score of the note lists of its two sources
\* alone.  In analyze_model_agreement a recording with fewer than two
\* sources gives no row, and a missing source removes the pairs that
\* contain it and no other.
C11_OncePerPair ==
    PairsScored =>
        /\ OncePerPair(CalcPairOf, Len(agreement_results), CalcModels)
        /\ OncePerPair(AnalyzePairOf, Len(agreement_data), AnalyzeModels)
        /\ Cardinality(Available) < 2 => agreement_data = << >>
        /\ \A n \in 1..Len(agreement_results) :
             \E p, q \in Available :
                /\ CalcPairOf(n) = <<CalcModels[p], CalcModels[q]>>
                /\ ScoreOf(NotesOfSource(p), NotesOfSource(q),
                           agreement_results[n].matches,
                           agreement_results[n].agreement)
        /\ \A n \in 1..Len(agreement_data) :
             \E p, q \in Available :
                /\ AnalyzePairOf(n) = <<AnalyzeModels[p], AnalyzeModels[q]>>
                /\ ScoreOf(NotesOfSource(p), NotesOfSource(q),
                           agreement_data[n].matching_notes,
                           agreement_data[n].agreement)

\* three sources with three different note lists were scored: three rows
\* from each script
C11_Witness ==
    /\ PairsScored
    /\ Cardinality(Available) = 3
    /\ Cardinality({ NotesOfSource(p) : p \in Available }) = 3
    /\ Len(agreement_results) = 3
    /\ Len(agreement_data) = 3

-----------------------------------------------------------------------------
(* Properties of the peak picker *)

Picked == fn = "find_peaks" /\ result # None
PickedBins == { result[1][n] : n \in 1..Len(result[1]) }

\* bin b is above both of its immediate neighbours
StrictLocalMaximum(spectrum, b) ==
    /\ b - 1 \in DOMAIN spectrum
    /\ b + 1 \in DOMAIN spectrum
    /\ spectrum[b - 1] < spectrum[b]
    /\ spectrum[b + 1] < spectrum[b]

\* bin b is the middle (of two middles the lower) of a run of equal values
\* with a lower bin on either side; a run of one bin is a strict local
\* maximum
FlatPeakMiddle(spectrum, b) ==
    \E l, r \in DOMAIN spectrum :
        /\ l <= b /\ b <= r
        /\ \A x \in l..r : spectrum[x] = spectrum[b]
        /\ l - 1 \in DOMAIN spectrum /\ spectrum[l - 1] < spectrum[b]
        /\ r + 1 \in DOMAIN spectrum /\ spectrum[r + 1] < spectrum[b]
        /\ b = (l + r) \div 2

FarApart(bins) ==
    \A b1, b2 \in bins : b1 # b2 => Abs(b1 - b2) >= PeakDistance

\* C12 as stated: a bin is returned exactly when its value exceeds -40 and
\* it is above both immediate neighbours, and returned bins are 2 apart.
C12_Original ==
    Picked =>
        /\ \A b \in DOMAIN arg :
             b \in PickedBins <=> arg[b] > MinDb /\ StrictLocalMaximum(arg, b)
        /\ FarApart(PickedBins)

\* C12: a bin is returned as a peak if and only if its value is at least
\* -40 dB (the threshold included) and it is the middle of a run of equal
\* values that has a lower bin on either side, so never the first or the
\* last bin; a bin is returned once, and any two returned bins are at
\* least 2 bins apart.
C12_PeakRule ==
    Picked =>
        /\ \A b \in DOMAIN arg :
             b \in PickedBins <=> arg[b] >= MinDb /\ FlatPeakMiddle(arg, b)
        /\ Cardinality(PickedBins) = Len(result[1])
        /\ FarApart(PickedBins)

\* a flat peak of two bins exactly at the threshold was returned, at its
\* lower bin
C12_Witness ==
    /\ Picked
    /\ \E b \in PickedBins :
         /\ arg[b] = MinDb
         /\ arg[b + 1] = MinDb
         /\ ~StrictLocalMaximum(arg, b)

\* C13 as stated: the peaks are returned from the highest magnitude down
\* (equal magnitudes in any order), and a frame with no bin that passes the
\* threshold returns none.
C13_Original ==
    Picked =>
        /\ \A m, n \in 1..Len(result[1]) :
             m < n => arg[result[1][m]] >= arg[result[1][n]]
        /\ (\A b \in DOMAIN arg : arg[b] < MinDb) => result[1] = << >>

\* C13: the peaks are returned in ascending order of bin, whatever their
\* magnitudes, and a frame with no bin at or above the threshold returns
\* the empty sequence.
C13_AscendingBins ==
    Picked =>
        /\ \A m, n \in 1..Len(result[1]) : m < n => result[1][m] < result[1][n]
        /\ (\A b \in DOMAIN arg : arg[b] < MinDb) => result[1] = << >>

\* two peaks were returned, the lower one first
C13_Witness ==
    /\ Picked
    /\ Len(result[1]) = 2
    /\ arg[result[1][1]] < arg[result[1][2]]

-----------------------------------------------------------------------------
(* Properties of the offset estimate *)

Scanned == fn = "offset_frame" /\ result # None

\* the whole part of num / den, for num >= 0 and den > 0
WholePart(num, den) ==
    CHOOSE n \in 0..num : n * den <= num /\ num < (n + 1) * den

\* the frames scanned for the onset frame of arg: those behind the onset
\* frame, less than 2 s (a whole number of frames) from it, that exist
ScanWindow ==
    { f \in DOMAIN arg.row :
        /\ f > arg.onset_frame
        /\ f < arg.onset_frame + WholePart(2 * arg.rate[1], arg.rate[2]) }
DecayedFrames == { f \in ScanWindow : arg.row[f] < DecayDb }
FirstOf(frames) == CHOOSE f \in frames : \A g \in frames : f <= g
\* the frames of 0.5 s, a whole number
FallbackFrames == WholePart(arg.rate[1], 2 * arg.rate[2])

\* C14: the offset frame of a peak is the first frame of the scan window
\* (the frames from onset_frame + 1 up to, and not including,
\* onset_frame + 2 s of frames, as far as the spectrogram has them) at
\* which the magnitude of the bin is below -50 dB; with no such frame it
\* is onset_frame + 0.5 s of frames.
C14_OffsetRule ==
    Scanned =>
        result[1] = IF DecayedFrames # {} THEN FirstOf(DecayedFrames)
                    ELSE arg.onset_frame + FallbackFrames

\* the bin stayed exactly at -50 dB for a frame, which is not a decay, and
\* then decayed in two frames of the window: the offset is the first
C14_Witness ==
    /\ Scanned
    /\ Cardinality(DecayedFrames) >= 2
    /\ \E f \in ScanWindow : f < result[1] /\ arg.row[f] = DecayDb
    /\ result[1] = FirstOf(DecayedFrames)

\* C15 as stated, for any positive minimum duration: a candidate lasts at
\* least one frame.
C15_Original ==
    Scanned => result[1] - arg.onset_frame >= 1

\* C15: a candidate never ends before its onset frame, and no minimum
\* duration is enforced: a detected decay gives the distance to the first
\* decayed frame, at least one frame and never extended, and no decay
\* gives the 0.5 s of frames, which is no frame at all below 2 frames per
\* second.
C15_NoMinimumDuration ==
    Scanned =>
        LET duration == result[1] - arg.onset_frame
        IN  /\ duration >= 0
            /\ DecayedFrames # {} =>
                 /\ duration >= 1
                 /\ duration = FirstOf(DecayedFrames) - arg.onset_frame
            /\ DecayedFrames = {} => duration = FallbackFrames
            /\ duration = 0 => 2 * arg.rate[2] > arg.rate[1]

\* a decay at the frame behind the onset gave a note of one frame where
\* the fallback is two frames
C15_Witness ==
    /\ Scanned
    /\ arg.onset_frame + 1 \in DecayedFrames
    /\ FallbackFrames = 2
    /\ result[1] - arg.onset_frame = 1

-----------------------------------------------------------------------------
(* Properties of the velocity *)

VelocityDone == fn = "velocity" /\ result # None

\* num / den with the fraction dropped (towards zero), for den > 0
Truncated(num, den) ==
    IF num >= 0 THEN WholePart(num, den) ELSE -WholePart(-num, den)

\* (dB + 60) * 2 of a height in tenths of a dB, truncated, then clamped
ClampedVelocity(h) ==
    LET v == Truncated((h + 60 * Tenth) * 2, Tenth)
    IN  IF v < 1 THEN 1 ELSE IF v > 127 THEN 127 ELSE v

\* C17: the velocity is an integer from 1 to 127, equal to (dB + 60) * 2
\* truncated to an integer and clamped below at 1 and above at 127, and a
\* higher peak never gets a lower velocity.
C17_Velocity ==
    VelocityDone =>
        /\ result[1].low \in 1..127
        /\ result[1].high \in 1..127
        /\ result[1].low = ClampedVelocity(arg.low)
        /\ result[1].high = ClampedVelocity(arg.high)
        /\ result[1].low <= result[1].high

\* two heights a peak can have, between -40 and 0 dB, whose (dB + 60) * 2
\* are not whole: both were truncated, to different velocities
C17_Witness ==
    /\ VelocityDone
    /\ MinDb * Tenth <= arg.low
    /\ arg.high <= 0
    /\ ((arg.low + 60 * Tenth) * 2) % Tenth >= 5
    /\ ((arg.high + 60 * Tenth) * 2) % Tenth >= 5
    /\ result[1].low < result[1].high

-----------------------------------------------------------------------------
(* Properties of the extraction loop *)

\* no note of the list ends before it starts
NeverEndBeforeOnset(ns) ==
    \A n \in 1..Len(ns) : ns[n].offset_time_s >= ns[n].onset_time_s

\* C16: every note, as a candidate, as a kept note and as a note of the
\* Transcription returned, has offset_time_s >= onset_time_s, whatever the
\* spectrogram, the onset frame (the last frame, whose scan window is
\* empty, included) and the frame rate.
C16_OffsetNotBeforeOnset ==
    /\ NeverEndBeforeOnset(notes)
    /\ NeverEndBeforeOnset(filtered_notes)
    /\ Returned => NeverEndBeforeOnset(ReturnedNotes)

\* a note whose onset is the last of several frames was returned
C16_Witness ==
    /\ Returned
    /\ FrameCount(C_db) >= 2
    /\ \E n \in 1..Len(ReturnedNotes) :
         ReturnedNotes[n].onset_time_s =
             frames_to_time(FrameCount(C_db) - 1, hop_length)

\* the column of frame f of the spectrogram
Column(f) == [ b \in DOMAIN C_db |-> C_db[b][f] ]
\* the bins accepted as peaks at frame f
AcceptedPeaks(f) ==
    { b \in DOMAIN C_db : C_db[b][f] >= MinDb /\ FlatPeakMiddle(Column(f), b) }
\* the step of the loop at line 52 for an onset frame in range
ExtractsInRange ==
    /\ pc = "extract"
    /\ k' = k + 1
    /\ onset_frames[k] < FrameCount(C_db)
\* the step for an onset frame out of range
ExtractsOutOfRange ==
    /\ pc = "extract"
    /\ k' = k + 1
    /\ onset_frames[k] >= FrameCount(C_db)
\* the candidates the step has added
Added == SubSeq(notes', Len(notes) + 1, Len(notes'))
\* the spectrogram of one frame whose only loud bin is bin 39
MiddleC ==
    /\ C_db \in OneLoudBin
    /\ C_db[39][0] >= MinDb
    /\ onset_frames = << 0 >>

\* C18: for an onset frame in range the extractor adds exactly one
\* candidate for each accepted peak of that frame, of pitch_midi 21 + bin
\* and of onset_time_s the time of the frame, and adds nothing else; a
\* single frame whose one local maximum is at bin 39, with onset frames
\* [0], returns exactly one note, of pitch_midi 60.
C18_OneNotePerPeak ==
    /\ [][ExtractsInRange =>
            /\ SubSeq(notes', 1, Len(notes)) = notes
            /\ Len(Added) = Cardinality(AcceptedPeaks(onset_frames[k]))
            /\ \A b \in AcceptedPeaks(onset_frames[k]) :
                 \E n \in 1..Len(Added) : Added[n].pitch_midi = A0 + b
            /\ \A n \in 1..Len(Added) :
                 Added[n].onset_time_s =
                     frames_to_time(onset_frames[k], hop_length)]_vars
    /\ [](Returned /\ MiddleC =>
            /\ Len(ReturnedNotes) = 1
            /\ ReturnedNotes[1].pitch_midi = 60)

\* the frame with its one peak at bin 39 returned one note, of pitch 60
C18_Witness ==
    /\ Returned
    /\ MiddleC
    /\ Len(ReturnedNotes) = 1
    /\ ReturnedNotes[1].pitch_midi = 60
    /\ ReturnedNotes[1].onset_time_s = 0

\* C19 as stated: a run with an onset frame out of range fails, so no
\* Transcription is returned from it.
C19_Original ==
    Returned =>
        \A n \in 1..Len(onset_frames) : onset_frames[n] < FrameCount(C_db)

\* C19: an onset frame out of range is skipped: it adds no candidate and
\* the loop goes on with the next onset frame, so the Transcription
\* returned holds notes of the onset frames in range and of no other.
C19_SkipsOutOfRange ==
    /\ [][ExtractsOutOfRange => notes' = notes /\ pc' = "extract"]_vars
    /\ [](Returned =>
            \A m \in 1..Len(ReturnedNotes) :
               \E n \in 1..Len(onset_frames) :
                  /\ onset_frames[n] < FrameCount(C_db)
                  /\ ReturnedNotes[m].onset_time_s =
                         frames_to_time(onset_frames[n], hop_length))

\* a run with an onset frame out of range returned the notes of the others
C19_Witness ==
    /\ Returned
    /\ \E n \in 1..Len(onset_frames) : onset_frames[n] >= FrameCount(C_db)
    /\ ReturnedNotes # << >>

NothingToExtract == onset_frames = << >> \/ FrameCount(C_db) = 0

\* C20: with no onset frame, or with a spectrogram of no frame, the run
\* can always take its next step and returns a Transcription of zero notes.
C20_EmptyInput ==
    NothingToExtract =>
        /\ notes = << >>
        /\ pc # "done" => ENABLED Next
        /\ pc = "done" => Returned /\ ReturnedNotes = << >>

\* a spectrogram with peaks and no onset frame returned zero notes
C20_Witness ==
    /\ Returned
    /\ onset_frames = << >>
    /\ \E f \in DOMAIN C_db[0] : AcceptedPeaks(f) # {}
    /\ ReturnedNotes = << >>

-----------------------------------------------------------------------------
(* Properties of the ratios *)

\* x is a value, not the outcome of a division by zero
Defined(x) == x.den > 0

Computed(name) == fn = name /\ result # None

\* C21: every ratio is a defined value, and it is 0 when its denominator
\* is zero: the agreement of two empty note lists, the onset precision
\* without a predicted note, the onset recall without a ground-truth note,
\* the onset F1 when precision + recall = 0 (no common onset), and the
\* average confidence of no note.
C21_ZeroDenominators ==
    /\ Computed("agreement") =>
         /\ Defined(result[1].calculate.agreement)
         /\ Defined(result[1].analyze.agreement)
         /\ (arg.first = << >> /\ arg.second = << >>) =>
              /\ result[1].calculate.agreement = Zero
              /\ result[1].analyze.agreement = Zero
    /\ Computed("evaluate_against_ground_truth") =>
         /\ Defined(result[1].onset_precision)
         /\ Defined(result[1].onset_recall)
         /\ Defined(result[1].onset_f1)
         /\ arg.first = << >> => result[1].onset_precision = Zero
         /\ arg.second = << >> => result[1].onset_recall = Zero
         /\ (result[1].onset_precision = Zero
               /\ result[1].onset_recall = Zero) => result[1].onset_f1 = Zero
         /\ OnsetSet(arg.first) \cap OnsetSet(arg.second) = {} =>
              result[1].onset_f1 = Zero
    /\ Computed("avg_confidence") =>
         /\ Defined(result[1])
         /\ arg = << >> => result[1] = Zero

\* no predicted note and no ground-truth note: the three denominators of
\* the evaluation are zero, and the three ratios are 0
C21_Witness ==
    /\ Computed("evaluate_against_ground_truth")
    /\ arg.first = << >>
    /\ arg.second = << >>
    /\ result[1].onset_precision = Zero
    /\ result[1].onset_recall = Zero
    /\ result[1].onset_f1 = Zero

-----------------------------------------------------------------------------
(* Bounds of the scores *)

\* x is a value from 0 to 1
InUnitInterval(x) == x.den > 0 /\ 0 <= x.num /\ x.num <= x.den

\* C22: for all note lists a and b the match count of (a, b) is at least 0
\* and at most |a|, and the agreement lies in [0, 1], in both scripts and
\* in both orders, even when several notes of a match one note of b.
C22_MatchesBounded ==
    Scored =>
        /\ row_ab[1].matches \in 0..Len(notes1)
        /\ row_ba[1].matches \in 0..Len(notes2)
        /\ row_an[1].matching_notes \in 0..Len(notes1)
        /\ row_na[1].matching_notes \in 0..Len(notes2)
        /\ InUnitInterval(row_ab[1].agreement)
        /\ InUnitInterval(row_ba[1].agreement)
        /\ InUnitInterval(row_an[1].agreement)
        /\ InUnitInterval(row_na[1].agreement)

\* two different notes of the first list match the one note of the second:
\* two matches, the length of the first list, and an agreement of 1
C22_Witness ==
    /\ Scored
    /\ Len(notes1) = 2
    /\ Len(notes2) = 1
    /\ notes1[1] # notes1[2]
    /\ row_ab[1].matches = 2
    /\ row_an[1].matching_notes = 2
    /\ row_ab[1].agreement = [ num |-> 1, den |-> 1 ]
    /\ row_ba[1].matches = 1

-----------------------------------------------------------------------------
(* The two agreement scripts against each other *)

\* the place of a name in a list of model names
SlotOf(names, name) == CHOOSE p \in 1..Len(names) : names[p] = name

\* what each script reports for the recording: for each row the two
\* sources, first and second, the match count and the agreement
CalcScores ==
    { [ first     |-> SlotOf(CalcModels, agreement_results[n].model1),
        second    |-> SlotOf(CalcModels, agreement_results[n].model2),
        matches   |-> agreement_results[n].matches,
        agreement |-> agreement_results[n].agreement ] :
      n \in 1..Len(agreement_results) }
AnalyzeScores ==
    { [ first     |-> SlotOf(AnalyzeModels, agreement_data[n].model_pair[1]),
        second    |-> SlotOf(AnalyzeModels, agreement_data[n].model_pair[2]),
        matches   |-> agreement_data[n].matching_notes,
        agreement |-> agreement_data[n].agreement ] :
      n \in 1..Len(agreement_data) }

\* C23: given the same note lists for the same sources of a recording, in
\* ascending order of name, calculate_agreement and analyze_model_agreement
\* append the same number of rows, for the same ordered pairs (first
\* source, second source), with the same match count and the same
\* agreement for each pair.
C23_SameScores ==
    PairsScored =>
        /\ Len(agreement_results) = Len(agreement_data)
        /\ CalcScores = AnalyzeScores

\* three sources with note lists of different lengths, and a pair whose
\* agreement is neither 0 nor 1, were scored alike by both scripts
C23_Witness ==
    /\ PairsScored
    /\ Cardinality(Available) = 3
    /\ \E p, q \in Available : Len(NotesOfSource(p)) # Len(NotesOfSource(q))
    /\ \E sc \in CalcScores :
         sc.matches > 0 /\ sc.agreement.num < sc.agreement.den
    /\ Cardinality(CalcScores) = 3
    /\ CalcScores = AnalyzeScores

-----------------------------------------------------------------------------
(* C24: no read outside the frame axis *)

\* the frames that exist
FrameAxis == 0..(FrameCount(C_db) - 1)

\* the frames an onset frame may have scanned: those behind it, less than
\* 2 s of frames from it, that exist
FramesBehind(onset_frame) ==
    { f \in FrameAxis :
        /\ onset_frame < f
        /\ f < Min(onset_frame + WholePart(2 * sample_rate, hop_length),
                   FrameCount(C_db)) }

\* the frames the step reads for the first time
NewlyRead == frames_read' \ frames_read

\* C24: every frame read during the extraction exists; the step for an
\* onset frame out of range reads nothing, the step for an onset frame in
\* range reads that frame and, besides, only frames behind it within 2 s
\* and within the recording, which for the last frame are none
C24_ReadsInsideFrameAxis ==
    /\ [](frames_read \subseteq FrameAxis)
    /\ [][ExtractsOutOfRange => frames_read' = frames_read]_vars
    /\ [][ExtractsInRange =>
             /\ onset_frames[k] \in frames_read'
             /\ NewlyRead \subseteq
                    {onset_frames[k]} \cup FramesBehind(onset_frames[k])
             /\ (onset_frames[k] = FrameCount(C_db) - 1 =>
                    NewlyRead \subseteq {onset_frames[k]})]_vars

\* a recording of two frames with onsets at its last frame and behind it:
\* a peak is found at the last frame and that frame alone has been read
C24_Witness ==
    /\ pc = "done"
    /\ FrameCount(C_db) = NFrames
    /\ onset_frames = <<NFrames - 1, NFrames>>
    /\ Len(notes) > 0
    /\ frames_read = {NFrames - 1}

-----------------------------------------------------------------------------
(* C25: one result row per (sample, model) pair *)

\* the pair of the n-th result row in sample-then-model order
SampleOfRow(n) == sample_files[((n - 1) \div Len(RunModels)) + 1]
ModelOfRow(n) == RunModels[((n - 1) % Len(RunModels)) + 1]

\* the calls of one operation made for the pair of the n-th row
CallsOf(n, op) ==
    { c \in DOMAIN calls :
        /\ calls[c].op = op
        /\ calls[c].sample = SampleOfRow(n)
        /\ calls[c].model = ModelOfRow(n) }

\* the calls for the pair of the n-th row that raised
RaisedFor(n) ==
    { c \in CallsOf(n, "transcribe") \cup CallsOf(n, "save_output") :
        calls[c].raised # None }

\* the pairs the loops have gone past
PairsDone == (sample_pos - 1) * Len(RunModels) + (model_pos - 1)

\* C25: the result rows are one per (sample, model) pair gone past, in
\* sample-then-model order; each pair had one transcribe call and at most
\* one save_output call; a pair one of whose calls raised has the row with
\* num_notes, inference_time and avg_confidence 0 and the message of what
\* was raised, any other pair a row without an error; the run can always go
\* on, and returns with a row for every pair
C25_OneRowPerPair ==
    /\ Len(results) = PairsDone
    /\ \A n \in DOMAIN results :
        /\ results[n].sample = SampleOfRow(n)
        /\ results[n].model = ModelOfRow(n)
        /\ Cardinality(CallsOf(n, "transcribe")) = 1
        /\ Cardinality(CallsOf(n, "save_output")) <= 1
        /\ Cardinality(RaisedFor(n)) <= 1
        /\ \A c \in RaisedFor(n) :
            results[n] = [ sample         |-> SampleOfRow(n),
                           model          |-> ModelOfRow(n),
                           num_notes      |-> 0,
                           inference_time |-> 0,
                           avg_confidence |-> Zero,
                           error          |-> calls[c].raised[1] ]
        /\ RaisedFor(n) = {} =>
            /\ "error" \notin DOMAIN results[n]
            /\ results[n].inference_time > 0
    /\ rpc = "run" => ENABLED NextRun
    /\ rpc = "done" => Len(results) = Len(sample_files) * Len(RunModels)

\* two samples: on the first, transcribe raises for the first model,
\* save_output for the second, and the third model succeeds with two
\* notes; the second sample is processed too, with a failure and a success
C25_Witness ==
    /\ rpc = "done"
    /\ Len(sample_files) = 2
    /\ Len(results) = 6
    /\ "error" \in DOMAIN results[1]
    /\ results[1].error \in TranscribeErrors
    /\ "error" \in DOMAIN results[2]
    /\ results[2].error \in SaveErrors
    /\ results[3].num_notes = 2
    /\ "error" \in DOMAIN results[4]
    /\ "error" \notin DOMAIN results[6]

====
